---------------------------- MODULE Spec2Model ----------------------------
(***************************************************************************)
(* A model of the FANUC program analyzer: FANUCParser.parse_file and       *)
(* FANUCAnalyzer.analyze_all with its aggregation (fanuc_analyzer.py),     *)
(* the call-tree walk of the report, and FANUCFlowAnalyzer.parse_program   *)
(* (fanuc_flow_analyzer.py).                                               *)
(*                                                                         *)
(* Text is modelled as it is in the program: a string is a sequence of     *)
(* one-character strings, and every regular expression of the source is an *)
(* operator over such sequences that matches what the expression matches.  *)
(***************************************************************************)
EXTENDS Integers, Sequences, FiniteSets, TLC

VARIABLES
    files,              \* the batch handed to analyze_all, in sorted path order
    fidx,               \* analyze_all: index of the file of the current iteration
    pc,                 \* control position of the run
    program,            \* parse_file: the FANUCProgram under construction
    lines,              \* _parse_code: lines = code_text.split('\n')
    li,                 \* _parse_code / parse_program: index of the next line
    returned,           \* what each parse_file call returned (or that it raised)
    programs,           \* FANUCParser.programs
    call_graph,         \* FANUCAnalyzer.call_graph
    register_map,       \* FANUCAnalyzer.register_map
    io_map,             \* FANUCAnalyzer.io_map
    flow_file,          \* FANUCFlowAnalyzer.program_file (index into files)
    flow_nodes,         \* FANUCFlowAnalyzer.flow_nodes
    current_node,       \* parse_program: the current block (its label) or None
    error_nodes,        \* FANUCFlowAnalyzer.error_nodes
    main_cycle_labels,  \* FANUCFlowAnalyzer.main_cycle_labels
    attached,           \* parse_program: per scanned line, the block it went to
    errors,             \* identify_error_handling: the list it returns
    roots,              \* _write_call_graph: sorted main programs still to render
    stack,              \* _write_call_tree: the recursion stack
    visited,            \* _write_call_tree: the visited set of this traversal
    out,                \* lines written to the report by the call-graph section
    expanded            \* per root, the names whose callees were rendered, in order

vars == <<files, fidx, pc, program, lines, li, returned, programs, call_graph,
          register_map, io_map, flow_file, flow_nodes, current_node,
          error_nodes, main_cycle_labels, attached, errors, roots, stack,
          visited, out, expanded>>

parseVars == <<program, lines, li>>
batchVars == <<returned, programs>>
aggVars   == <<call_graph, register_map, io_map>>
flowVars  == <<flow_file, flow_nodes, current_node, error_nodes,
               main_cycle_labels, attached, errors>>
treeVars  == <<roots, stack, visited, out, expanded>>

\* None, where the value is otherwise a str
None == <<"None">>

(***************************************************************************)
(* Characters and character classes of Python's re module                  *)
(***************************************************************************)
DigitChars == <<"0","1","2","3","4","5","6","7","8","9">>
UpperChars == <<"A","B","C","D","E","F","G","H","I","J","K","L","M","N","O","P","Q","R","S","T","U","V","W","X","Y","Z">>
LowerChars == <<"a","b","c","d","e","f","g","h","i","j","k","l","m","n","o","p","q","r","s","t","u","v","w","x","y","z">>

Range(s) == {s[k] : k \in 1..Len(s)}

Digit == Range(DigitChars)                                   \* \d
Word  == Range(DigitChars) \cup Range(UpperChars)
           \cup Range(LowerChars) \cup {"_"}                 \* \w
Space == {" ", "\t", "\n", "\r", "\f"}                       \* \s

Min(S) == CHOOSE x \in S : \A y \in S : x <= y
Max(S) == CHOOSE x \in S : \A y \in S : y <= x

\* ord(c) for the characters a program name is made of (str comparison)
OrdTable == DigitChars \o UpperChars \o <<"_">> \o LowerChars
Ord(c) == IF \E k \in 1..Len(OrdTable) : OrdTable[k] = c
          THEN CHOOSE k \in 1..Len(OrdTable) : OrdTable[k] = c
          ELSE 0

\* a < b for str
RECURSIVE StrLess(_, _)
StrLess(a, b) ==
    IF b = <<>> THEN FALSE
    ELSE IF a = <<>> THEN TRUE
    ELSE IF a[1] = b[1] THEN StrLess(Tail(a), Tail(b))
    ELSE Ord(a[1]) < Ord(b[1])

\* sorted(S) for a set of str
RECURSIVE Sorted(_)
Sorted(S) ==
    IF S = {} THEN <<>>
    ELSE LET m == CHOOSE x \in S : \A y \in S \ {x} : StrLess(x, y)
         IN  <<m>> \o Sorted(S \ {m})

\* int(text) of a run of decimal digits
DigitVal(c) == (CHOOSE k \in 1..10 : DigitChars[k] = c) - 1
RECURSIVE ToInt(_)
ToInt(d) ==
    IF d = <<>> THEN 0
    ELSE 10 * ToInt(SubSeq(d, 1, Len(d) - 1)) + DigitVal(d[Len(d)])

\* str.upper() on the letters of the alphabet
UpperOf(c) == IF \E k \in 1..26 : LowerChars[k] = c
              THEN UpperChars[CHOOSE k \in 1..26 : LowerChars[k] = c]
              ELSE c
ToUpper(s) == [k \in 1..Len(s) |-> UpperOf(s[k])]

\* the literal lit stands in s at index i
Lit(s, i, lit) ==
    /\ i >= 1
    /\ i + Len(lit) - 1 <= Len(s)
    /\ \A k \in 1..Len(lit) : s[i + k - 1] = lit[k]

\* lit in s (substring test)
Contains(s, lit) == \E i \in 1..Len(s) : Lit(s, i, lit)

\* str.startswith
StartsWith(s, lit) == Lit(s, 1, lit)

\* index of the first occurrence of lit in s at or after from, else 0
Find(s, lit, from) ==
    LET hits == {i \in from..Len(s) : Lit(s, i, lit)}
    IN  IF hits = {} THEN 0 ELSE Min(hits)

\* first index at or after i whose character is not in cls (greedy cls*)
RECURSIVE SpanEnd(_, _, _)
SpanEnd(s, i, cls) ==
    IF i <= Len(s) /\ s[i] \in cls THEN SpanEnd(s, i + 1, cls) ELSE i

\* str.strip()
Strip(s) ==
    LET keep == {k \in 1..Len(s) : s[k] \notin Space}
    IN  IF keep = {} THEN <<>> ELSE SubSeq(s, Min(keep), Max(keep))

\* str.split('\n')
RECURSIVE Split(_)
Split(s) ==
    LET n == Find(s, <<"\n">>, 1)
    IN  IF n = 0 THEN <<s>>
        ELSE <<SubSeq(s, 1, n - 1)>> \o Split(SubSeq(s, n + 1, Len(s)))

NoMatch == [ok |-> FALSE]

(***************************************************************************)
(* The regular expressions of the source                                   *)
(***************************************************************************)

\* PRE\[(\d+)(?::([^\]]+))?\] matched at index i: the pattern shared by the
\* label expression and the operand expressions (pre is LBL, R, DI, ...)
BracketAt(s, i, pre) ==
    LET d == i + Len(pre) + 1
        e == SpanEnd(s, d, Digit)
        c == Find(s, <<"]">>, e + 1)
    IN  IF ~(Lit(s, i, pre) /\ Lit(s, i + Len(pre), <<"[">>)) \/ e = d
        THEN NoMatch
        ELSE IF e <= Len(s) /\ s[e] = ":" /\ c > e + 1
        THEN [ok |-> TRUE, start |-> i, end |-> c + 1,
              num |-> ToInt(SubSeq(s, d, e - 1)),
              name |-> SubSeq(s, e + 1, c - 1)]
        ELSE IF e <= Len(s) /\ s[e] = "]"
        THEN [ok |-> TRUE, start |-> i, end |-> e + 1,
              num |-> ToInt(SubSeq(s, d, e - 1)), name |-> <<>>]
        ELSE NoMatch

\* re.search(PRE\[(\d+)(?::([^\]]+))?\], s): the leftmost match
BracketSearch(s, pre) ==
    LET hits == {i \in 1..Len(s) : BracketAt(s, i, pre).ok}
    IN  IF hits = {} THEN NoMatch ELSE BracketAt(s, Min(hits), pre)

\* re.finditer(PRE\[(\d+)(?::([^\]]+))?\], s): the matches from index from
\* on, left to right and not overlapping
RECURSIVE BracketFindAll(_, _, _)
BracketFindAll(s, pre, from) ==
    LET hits == {i \in from..Len(s) : BracketAt(s, i, pre).ok}
    IN  IF hits = {} THEN <<>>
        ELSE LET m == BracketAt(s, Min(hits), pre)
             IN  <<m>> \o BracketFindAll(s, pre, m.end)

\* re.search(r'LBL\[(\d+)(?::([^\]]+))?\]', line)
LabelSearch(line) == BracketSearch(line, <<"L","B","L">>)

\* JMP\s+LBL\[(\d+) matched at index i
JumpAt(s, i) ==
    LET w == SpanEnd(s, i + 3, Space)
        d == w + 4
        e == SpanEnd(s, d, Digit)
    IN  IF Lit(s, i, <<"J","M","P">>) /\ w > i + 3 /\ Lit(s, w, <<"L","B","L","[">>) /\ e > d
        THEN [ok |-> TRUE, start |-> i, end |-> e,
              num |-> ToInt(SubSeq(s, d, e - 1))]
        ELSE NoMatch

\* re.search(r'JMP\s+LBL\[(\d+)', line)
JumpSearch(line) ==
    LET hits == {i \in 1..Len(line) : JumpAt(line, i).ok}
    IN  IF hits = {} THEN NoMatch ELSE JumpAt(line, Min(hits))

\* CALL\s+(\w+) matched at index i
CallAt(s, i) ==
    LET w == SpanEnd(s, i + 4, Space)
        e == SpanEnd(s, w, Word)
    IN  IF Lit(s, i, <<"C","A","L","L">>) /\ w > i + 4 /\ e > w
        THEN [ok |-> TRUE, start |-> i, end |-> e, name |-> SubSeq(s, w, e - 1)]
        ELSE NoMatch

\* re.search(r'CALL\s+(\w+)', line)
CallSearch(line) ==
    LET hits == {i \in 1..Len(line) : CallAt(line, i).ok}
    IN  IF hits = {} THEN NoMatch ELSE CallAt(line, Min(hits))

\* IF\s+(.+?),JMP matched at index i: the guard is the shortest text of at
\* least one character that starts after the blanks and ends before ",JMP";
\* the run of blanks gives characters back to the guard only when it must
IfAt(s, i) ==
    LET w == SpanEnd(s, i + 2, Space)
        starts == {g \in (i + 3)..w : Find(s, <<",","J","M","P">>, g + 1) > 0}
    IN  IF Lit(s, i, <<"I","F">>) /\ w > i + 2 /\ starts # {}
        THEN LET g == Max(starts)
                 c == Find(s, <<",","J","M","P">>, g + 1)
             IN  [ok |-> TRUE, start |-> i, end |-> c + 4,
                  cond |-> SubSeq(s, g, c - 1)]
        ELSE NoMatch

\* re.search(r'IF\s+(.+?),JMP', line)
IfSearch(line) ==
    LET hits == {i \in 1..Len(line) : IfAt(line, i).ok}
    IN  IF hits = {} THEN NoMatch ELSE IfAt(line, Min(hits))

\* re.search(r'\bEND\b', line)
EndSearch(line) ==
    \E i \in 1..Len(line) :
        /\ Lit(line, i, <<"E","N","D">>)
        /\ (i = 1 \/ line[i - 1] \notin Word)
        /\ (i + 3 > Len(line) \/ line[i + 3] \notin Word)

\* re.search(OPEN(.*?)/(?:A|B), content, re.DOTALL): the text between the
\* first OPEN and the first of the closers after it
Region(content, open, closers) ==
    LET i == Find(content, open, 1)
        ends == {Find(content, c, i + Len(open)) : c \in closers} \ {0}
    IN  IF i = 0 \/ ends = {} THEN NoMatch
        ELSE [ok |-> TRUE, start |-> i,
              text |-> SubSeq(content, i + Len(open), Min(ends) - 1)]

\* /PROG\s+(\w+) matched at index i
ProgAt(s, i) ==
    LET w == SpanEnd(s, i + 5, Space)
        e == SpanEnd(s, w, Word)
    IN  IF Lit(s, i, <<"/","P","R","O","G">>) /\ w > i + 5 /\ e > w
        THEN [ok |-> TRUE, start |-> i, end |-> e, name |-> SubSeq(s, w, e - 1)]
        ELSE NoMatch

\* re.search(r'/PROG\s+(\w+)', content)
ProgSearch(content) ==
    LET hits == {i \in 1..Len(content) : ProgAt(content, i).ok}
    IN  IF hits = {} THEN NoMatch ELSE ProgAt(content, Min(hits))

\* P\[(\d+)(?::"([^"]+)")?\] matched at index i
PositionAt(s, i) ==
    LET d == i + 2
        e == SpanEnd(s, d, Digit)
        q == Find(s, <<"\"">>, e + 2)
    IN  IF ~Lit(s, i, <<"P","[">>) \/ e = d THEN NoMatch
        ELSE IF Lit(s, e, <<":", "\"">>) /\ q > e + 2 /\ Lit(s, q + 1, <<"]">>)
        THEN [ok |-> TRUE, start |-> i, end |-> q + 2,
              num |-> ToInt(SubSeq(s, d, e - 1)),
              name |-> SubSeq(s, e + 2, q - 1)]
        ELSE IF e <= Len(s) /\ s[e] = "]"
        THEN [ok |-> TRUE, start |-> i, end |-> e + 1,
              num |-> ToInt(SubSeq(s, d, e - 1)), name |-> <<>>]
        ELSE NoMatch

\* re.finditer(r'P\[(\d+)(?::"([^"]+)")?\]', pos_text)
RECURSIVE PositionFindAll(_, _)
PositionFindAll(s, from) ==
    LET hits == {i \in from..Len(s) : PositionAt(s, i).ok}
    IN  IF hits = {} THEN <<>>
        ELSE LET m == PositionAt(s, Min(hits))
             IN  <<m>> \o PositionFindAll(s, m.end)

\* KEY\s*=\s* matched at index i: the index after it, else 0
KeyEqAt(s, i, key) ==
    LET q == SpanEnd(s, i + Len(key), Space)
    IN  IF Lit(s, i, key) /\ Lit(s, q, <<"=">>)
        THEN SpanEnd(s, q + 1, Space) ELSE 0

\* KEY\s*=\s*([^;]+); matched at index i (OWNER, PROTECT)
AttrToSemiAt(s, i, key) ==
    LET w == KeyEqAt(s, i, key)
        c == Find(s, <<";">>, w)
        q == SpanEnd(s, i + Len(key), Space)
        starts == {g \in (q + 1)..w : c > g}
    IN  IF w = 0 \/ c = 0 \/ starts = {} THEN NoMatch
        ELSE [ok |-> TRUE, value |-> Strip(SubSeq(s, Max(starts), c - 1))]

\* COMMENT\s*=\s*"([^"]+)" matched at index i
AttrQuotedAt(s, i, key) ==
    LET w == KeyEqAt(s, i, key)
        c == Find(s, <<"\"">>, w + 1)
    IN  IF w = 0 \/ ~Lit(s, w, <<"\"">>) \/ c <= w + 1 THEN NoMatch
        ELSE [ok |-> TRUE, value |-> Strip(SubSeq(s, w + 1, c - 1))]

\* KEY\s*=\s*(\d+) matched at index i (PROG_SIZE, LINE_COUNT, MEMORY_SIZE)
AttrNumberAt(s, i, key) ==
    LET w == KeyEqAt(s, i, key)
        e == SpanEnd(s, w, Digit)
    IN  IF w = 0 \/ e = w THEN NoMatch
        ELSE [ok |-> TRUE, value |-> SubSeq(s, w, e - 1)]

\* KEY\s*=\s*DATE\s+([\d-]+)\s+TIME\s+([\d:]+) matched at index i
\* (CREATE, MODIFIED); the value is f"{group(1)} {group(2)}"
AttrDateAt(s, i, key) ==
    LET w  == KeyEqAt(s, i, key)
        d1 == SpanEnd(s, w + 4, Space)
        e1 == SpanEnd(s, d1, Digit \cup {"-"})
        t  == SpanEnd(s, e1, Space)
        d2 == SpanEnd(s, t + 4, Space)
        e2 == SpanEnd(s, d2, Digit \cup {":"})
    IN  IF /\ w # 0
           /\ Lit(s, w, <<"D","A","T","E">>) /\ d1 > w + 4 /\ e1 > d1
           /\ t > e1 /\ Lit(s, t, <<"T","I","M","E">>) /\ d2 > t + 4 /\ e2 > d2
        THEN [ok |-> TRUE,
              value |-> SubSeq(s, d1, e1 - 1) \o <<" ">> \o SubSeq(s, d2, e2 - 1)]
        ELSE NoMatch

\* the patterns dict of _parse_attributes: key, and the shape of its pattern
AttrPatterns ==
    << [key |-> <<"O","W","N","E","R">>,       shape |-> "semi"],
       [key |-> <<"C","O","M","M","E","N","T">>,     shape |-> "quoted"],
       [key |-> <<"P","R","O","G","_","S","I","Z","E">>,   shape |-> "number"],
       [key |-> <<"C","R","E","A","T","E">>,      shape |-> "date"],
       [key |-> <<"M","O","D","I","F","I","E","D">>,    shape |-> "date"],
       [key |-> <<"L","I","N","E","_","C","O","U","N","T">>,  shape |-> "number"],
       [key |-> <<"M","E","M","O","R","Y","_","S","I","Z","E">>, shape |-> "number"],
       [key |-> <<"P","R","O","T","E","C","T">>,     shape |-> "semi"] >>

AttrAt(s, i, pat) ==
    CASE pat.shape = "semi"   -> AttrToSemiAt(s, i, pat.key)
      [] pat.shape = "quoted" -> AttrQuotedAt(s, i, pat.key)
      [] pat.shape = "number" -> AttrNumberAt(s, i, pat.key)
      [] pat.shape = "date"   -> AttrDateAt(s, i, pat.key)

\* re.search(pattern, attr_text)
AttrSearch(s, pat) ==
    LET hits == {i \in 1..Len(s) : AttrAt(s, i, pat).ok}
    IN  IF hits = {} THEN NoMatch ELSE AttrAt(s, Min(hits), pat)

(***************************************************************************)
(* FANUCProgram                                                            *)
(***************************************************************************)
EmptyMap == [x \in {} |-> {}]

MapSet(m, k, v) == [x \in DOMAIN m \cup {k} |-> IF x = k THEN v ELSE m[x]]

\* parse_file has not been called yet
NoProgram == [filename |-> None]

\* a program object whose lists and sets are those of the program parsed
\* before it
FANUCProgramShared(filename) ==
    IF "name" \in DOMAIN program
    THEN [program EXCEPT !.filename = filename]
    ELSE [ filename           |-> filename,
           name               |-> <<>>,
           attributes         |-> EmptyMap,
           labels             |-> <<>>,
           positions          |-> <<>>,
           registers_used     |-> {},
           digital_inputs     |-> {},
           digital_outputs    |-> {},
           register_inputs    |-> {},
           register_outputs   |-> {},
           calls              |-> <<>>,
           jumps              |-> <<>>,
           code_lines         |-> <<>>,
           position_registers |-> <<>>,
           errors             |-> <<>>,
           program_type       |-> "unknown",
           product_code       |-> None,
           has_iml            |-> FALSE,
           statistics         |-> EmptyMap ]

\* FANUCProgram.__init__
FANUCProgram(filename) ==
    [ filename           |-> filename,
      name               |-> <<>>,
      attributes         |-> EmptyMap,
      labels             |-> <<>>,
      positions          |-> <<>>,
      registers_used     |-> {},
      digital_inputs     |-> {},
      digital_outputs    |-> {},
      register_inputs    |-> {},
      register_outputs   |-> {},
      calls              |-> <<>>,
      jumps              |-> <<>>,
      code_lines         |-> <<>>,
      position_registers |-> <<>>,
      errors             |-> <<>>,
      program_type       |-> "unknown",
      product_code       |-> None,
      has_iml            |-> FALSE,
      statistics         |-> EmptyMap ]

ErrorWindowLow  == 500
ErrorWindowHigh == 800

\* a window that takes its upper end in
InErrorWindowClosed(label_num) ==
    ErrorWindowLow <= label_num /\ label_num <= ErrorWindowHigh

\* 500 <= label_num < 800
InErrorWindow(label_num) ==
    ErrorWindowLow <= label_num /\ label_num < ErrorWindowHigh

MainPrefix == <<"A","_","1","P","A">>
MainDigits == 3

\* re.match(r'A_1PA\d{3}', name)
MatchesMainPattern(name) ==
    /\ StartsWith(name, MainPrefix)
    /\ SpanEnd(name, Len(MainPrefix) + 1, Digit) > Len(MainPrefix) + MainDigits

SubprogramPrefixes == {<<"K","E","R","1","_">>, <<"K","E","R","2","_">>, <<"A","F","L","G","_">>, <<"P","R","I","N","T","E","N">>, <<"B","U","F","_">>}

UtilityNames == {<<"H","O","M","I","N","G">>, <<"H","O","M","E","N">>, <<"H","O","M","E","N","1">>, <<"T","E","K","S","T">>, <<"F","O","L","I","E">>,
                 <<"D","U","M","P","E","N">>, <<"R","U","S","T">>}

SystemNames == {<<"L","O","G","B","O","O","K">>, <<"P","M","C">>}

ProductCodes == <<<<"3","8","4">>, <<"0","9","6">>, <<"1","5","3","6","C","C">>, <<"0","0","5">>, <<"0","1","7">>, <<"1","4","0">>, <<"1","8","0">>>>

\* re.search(r'_(384|096|1536CC|005|017|140|180)', name): group(1) or None
ProductCodeSearch(name) ==
    LET at(i) == {k \in 1..Len(ProductCodes) :
                     Lit(name, i, <<"_">>) /\ Lit(name, i + 1, ProductCodes[k])}
        hits == {i \in 1..Len(name) : at(i) # {}}
    IN  IF hits = {} THEN None ELSE ProductCodes[Min(at(Min(hits)))]

\* the has_iml scan of classify_program
HasImlMarker(code_lines) ==
    \E k \in 1..Len(code_lines) :
        \/ Contains(ToUpper(code_lines[k]), <<"I","M","L">>)
        \/ Contains(ToUpper(code_lines[k]), <<"F","O","L","I","E">>)

\* the rules with the subprogram rule ahead of the main rule
classify_program_subprogram_first(p) ==
    IF \E prefix \in SubprogramPrefixes : Contains(p.name, prefix)
    THEN [p EXCEPT !.program_type = "subprogram",
                   !.product_code = ProductCodeSearch(p.name)]
    ELSE IF MatchesMainPattern(p.name)
    THEN [p EXCEPT !.program_type = "main",
                   !.has_iml = HasImlMarker(p.code_lines)]
    ELSE IF p.name \in UtilityNames
    THEN [p EXCEPT !.program_type = "utility"]
    ELSE IF StartsWith(p.name, <<"E","R","R">>) \/ p.name \in SystemNames
    THEN [p EXCEPT !.program_type = "system"]
    ELSE [p EXCEPT !.program_type = "other"]

\* FANUCProgram.classify_program
classify_program(p) ==
    IF MatchesMainPattern(p.name)
    THEN [p EXCEPT !.program_type = "main",
                   !.has_iml = HasImlMarker(p.code_lines)]
    ELSE IF \E prefix \in SubprogramPrefixes : Contains(p.name, prefix)
    THEN [p EXCEPT !.program_type = "subprogram",
                   !.product_code = ProductCodeSearch(p.name)]
    ELSE IF p.name \in UtilityNames
    THEN [p EXCEPT !.program_type = "utility"]
    ELSE IF StartsWith(p.name, <<"E","R","R">>) \/ p.name \in SystemNames
    THEN [p EXCEPT !.program_type = "system"]
    ELSE [p EXCEPT !.program_type = "other"]

\* the collection a program keeps the operands of a kind in
OperandSet(p, kind) ==
    CASE kind = "R"  -> p.registers_used
      [] kind = "DI" -> p.digital_inputs
      [] kind = "DO" -> p.digital_outputs
      [] kind = "RI" -> p.register_inputs
      [] kind = "RO" -> p.register_outputs
      [] kind = "PR" -> Range(p.position_registers)

\* the key of the statistics that counts the operands of a kind; the
\* statistics have none for PR
CountKeys ==
    [R |-> "register_count", DI |-> "di_count", DO |-> "do_count",
     RI |-> "ri_count", RO |-> "ro_count"]

\* the dict built by FANUCProgram.calculate_statistics
Statistics(p) ==
    [ total_lines    |-> Len(p.code_lines),
      label_count    |-> Len(p.labels),
      call_count     |-> Len(p.calls),
      jump_count     |-> Len(p.jumps),
      position_count |-> Len(p.positions),
      register_count |-> Cardinality(p.registers_used),
      di_count       |-> Cardinality(p.digital_inputs),
      do_count       |-> Cardinality(p.digital_outputs),
      ri_count       |-> Cardinality(p.register_inputs),
      ro_count       |-> Cardinality(p.register_outputs),
      error_labels   |-> Len(p.errors) ]

\* FANUCProgram.calculate_statistics
calculate_statistics(p) == [p EXCEPT !.statistics = Statistics(p)]

(***************************************************************************)
(* FANUCParser                                                             *)
(***************************************************************************)

\* FANUCParser._parse_header
_parse_header(p, content) ==
    LET match == ProgSearch(content)
    IN  IF match.ok THEN [p EXCEPT !.name = match.name] ELSE p

\* the for loop of _parse_attributes over the patterns, from pattern k on
RECURSIVE AttrLoop(_, _, _)
AttrLoop(attrs, attr_text, k) ==
    IF k > Len(AttrPatterns) THEN attrs
    ELSE LET match == AttrSearch(attr_text, AttrPatterns[k])
         IN  AttrLoop(IF match.ok
                      THEN MapSet(attrs, AttrPatterns[k].key, match.value)
                      ELSE attrs,
                      attr_text, k + 1)

\* re.search(r'/ATTR(.*?)/(?:APPL|MN)', content, re.DOTALL)
AttrSection(content) == Region(content, <<"/","A","T","T","R">>, {<<"/","A","P","P","L">>, <<"/","M","N">>})

\* a main-code section that only /POS closes
MnSectionToPos(content) == Region(content, <<"/","M","N">>, {<<"/","P","O","S">>})

\* re.search(r'/MN(.*?)/(?:POS|END)', content, re.DOTALL)
MnSection(content) == Region(content, <<"/","M","N">>, {<<"/","P","O","S">>, <<"/","E","N","D">>})

\* re.search(r'/POS(.*?)/END', content, re.DOTALL)
PosSection(content) == Region(content, <<"/","P","O","S">>, {<<"/","E","N","D">>})

\* FANUCParser._parse_attributes
_parse_attributes(p, content) ==
    LET attr_section == AttrSection(content)
    IN  IF ~attr_section.ok THEN p
        ELSE [p EXCEPT !.attributes = AttrLoop(@, attr_section.text, 1)]

\* lines = code_text.split('\n') of _parse_code and parse_program; no lines
\* when the /MN section is not found
CodeLines(content) ==
    LET mn_section == MnSection(content)
    IN  IF mn_section.ok THEN Split(mn_section.text) ELSE <<>>

\* (num, name) of every match, as a set
MatchPairs(ms) == {<<ms[k].num, ms[k].name>> : k \in 1..Len(ms)}

\* the position-register loop: append each (num, name) not yet in the list
RECURSIVE AppendNew(_, _)
AppendNew(list, ms) ==
    IF ms = <<>> THEN list
    ELSE LET e == <<ms[1].num, ms[1].name>>
         IN  AppendNew(IF e \in Range(list) THEN list ELSE Append(list, e),
                       Tail(ms))

\* the label step of the loop body of _parse_code
CodeLabel(p, line, i) ==
    LET label_match == LabelSearch(line)
    IN  IF ~label_match.ok THEN p
        ELSE [p EXCEPT
                !.labels = Append(@, <<label_match.num, label_match.name, i>>),
                !.errors = IF InErrorWindow(label_match.num)
                           THEN Append(@, <<label_match.num, label_match.name>>)
                           ELSE @]

\* the jump step of the loop body of _parse_code
CodeJump(p, line, i) ==
    LET jump_match == JumpSearch(line)
    IN  IF jump_match.ok
        THEN [p EXCEPT !.jumps = Append(@, <<jump_match.num, i>>)] ELSE p

\* a CALL step that keeps the last call only
CodeCallKeepLast(p, line, i) ==
    LET call_match == CallSearch(line)
    IN  IF call_match.ok
        THEN [p EXCEPT !.calls = <<(<<call_match.name, i>>)>>] ELSE p

\* the CALL step of the loop body of _parse_code
CodeCall(p, line, i) ==
    LET call_match == CallSearch(line)
    IN  IF call_match.ok
        THEN [p EXCEPT !.calls = Append(@, <<call_match.name, i>>)] ELSE p

\* the operand steps of the loop body of _parse_code
CodeOperands(p, line) ==
    [p EXCEPT
       !.registers_used   = @ \cup MatchPairs(BracketFindAll(line, <<"R">>, 1)),
       !.digital_inputs   = @ \cup MatchPairs(BracketFindAll(line, <<"D","I">>, 1)),
       !.digital_outputs  = @ \cup MatchPairs(BracketFindAll(line, <<"D","O">>, 1)),
       !.register_inputs  = @ \cup MatchPairs(BracketFindAll(line, <<"R","I">>, 1)),
       !.register_outputs = @ \cup MatchPairs(BracketFindAll(line, <<"R","O">>, 1)),
       !.position_registers = AppendNew(@, BracketFindAll(line, <<"P","R">>, 1))]

\* one iteration of the loop of _parse_code: enumerate index i, raw line
CodeLine(p, raw, i) ==
    LET line == Strip(raw)
    IN  IF line = <<>> \/ StartsWith(line, <<"!">>) THEN p
        ELSE CodeOperands(
               CodeCall(
                 CodeJump(
                   CodeLabel([p EXCEPT !.code_lines = Append(@, line)],
                             line, i),
                   line, i),
                 line, i),
               line)

\* FANUCParser._parse_positions
_parse_positions(p, content) ==
    LET pos_section == PosSection(content)
        ms == PositionFindAll(pos_section.text, 1)
    IN  IF ~pos_section.ok THEN p
        ELSE [p EXCEPT !.positions =
                @ \o [k \in 1..Len(ms) |-> <<ms[k].num, ms[k].name>>]]

\* the loop of _parse_code from line k on (k counts from 1, enumerate from 0)
RECURSIVE CodeLoop(_, _, _)
CodeLoop(p, ls, k) ==
    IF k > Len(ls) THEN p ELSE CodeLoop(CodeLine(p, ls[k], k - 1), ls, k + 1)

\* FANUCParser._parse_code
_parse_code(p, content) == CodeLoop(p, CodeLines(content), 1)

\* FANUCParser.parse_file on a file that opens, as one function of its text
parse_file(filename, content) ==
    calculate_statistics(
      classify_program(
        _parse_positions(
          _parse_code(
            _parse_attributes(
              _parse_header(FANUCProgram(filename), content), content),
            content),
          content)))

(***************************************************************************)
(* Source units.  A unit is written down as what it says (its header name, *)
(* its instructions) and read by the program as the text of that.          *)
(***************************************************************************)

\* str(n) for n >= 0
RECURSIVE DecimalText(_)
DecimalText(n) ==
    IF n < 10 THEN <<DigitChars[n + 1]>>
    ELSE DecimalText(n \div 10) \o <<DigitChars[(n % 10) + 1]>>

\* an operand: its kind (R, DI, DO, RI, RO, PR), number and alias
Operand(kind, id, alias) == [kind |-> kind, id |-> id, alias |-> alias]

Kinds == {"R", "DI", "DO", "RI", "RO", "PR"}

KindText(kind) ==
    CASE kind = "R"  -> <<"R">>
      [] kind = "DI" -> <<"D","I">>
      [] kind = "DO" -> <<"D","O">>
      [] kind = "RI" -> <<"R","I">>
      [] kind = "RO" -> <<"R","O">>
      [] kind = "PR" -> <<"P","R">>

\* the text of an operand or of a label: KIND[id] or KIND[id:alias]
BracketText(pre, id, alias) ==
    pre \o <<"[">> \o DecimalText(id)
        \o (IF alias = <<>> THEN <<>> ELSE <<":">> \o alias) \o <<"]">>

OperandText(o) == BracketText(KindText(o.kind), o.id, o.alias)

\* the instructions of the main code
Lbl(n, alias)    == [op |-> "LBL", id |-> n, alias |-> alias]
Jmp(n)           == [op |-> "JMP", id |-> n]
IfJmp(o, n)      == [op |-> "IFJMP", test |-> o, id |-> n]
Call(name)       == [op |-> "CALL", name |-> name]
End              == [op |-> "END"]
Assign(dst, src) == [op |-> "ASSIGN", dst |-> dst, src |-> src]
SetOn(dst)       == [op |-> "SET", dst |-> dst]
Comment(t)       == [op |-> "COMMENT", text |-> t]
Raw(t)           == [op |-> "RAW", text |-> t]

\* the operands an instruction names
Operands(ins) ==
    CASE ins.op = "IFJMP"  -> {ins.test}
      [] ins.op = "ASSIGN" -> {ins.dst, ins.src}
      [] ins.op = "SET"    -> {ins.dst}
      [] OTHER             -> {}

\* the line of the .LS file that holds instruction ins
InstrText(ins) ==
    CASE ins.op = "LBL"     -> <<" ">> \o BracketText(<<"L","B","L">>, ins.id, ins.alias)
      [] ins.op = "JMP"     -> <<" ","J","M","P"," ">> \o BracketText(<<"L","B","L">>, ins.id, <<>>)
      [] ins.op = "IFJMP"   -> <<" ","I","F"," ">> \o OperandText(ins.test) \o <<"=","O","N",",","J","M","P"," ">>
                                 \o BracketText(<<"L","B","L">>, ins.id, <<>>)
      [] ins.op = "CALL"    -> <<" ","C","A","L","L"," ">> \o ins.name
      [] ins.op = "END"     -> <<" ","E","N","D">>
      [] ins.op = "ASSIGN"  -> <<" ">> \o OperandText(ins.dst) \o <<"=">>
                                 \o OperandText(ins.src)
      [] ins.op = "SET"     -> <<" ">> \o OperandText(ins.dst) \o <<"=","O","N">>
      [] ins.op = "COMMENT" -> <<" ","!"," ">> \o ins.text
      [] ins.op = "RAW"     -> <<" ">> \o ins.text

RECURSIVE JoinLines(_)
JoinLines(ls) ==
    IF ls = <<>> THEN <<>> ELSE ls[1] \o <<"\n">> \o JoinLines(Tail(ls))

\* the section anchors of a file besides the /PROG header
Anchors == {"ATTR", "APPL", "MN", "POS", "END"}

\* the anchors of a file as the controller writes it
DefaultAnchors == {"ATTR", "MN", "POS", "END"}

\* a unit: header name (None: no /PROG header), attribute lines, the
\* instructions of the main code, the lines of the position section, and
\* the anchors its text has
Unit(name, attr, code, pos) ==
    [name |-> name, attr |-> attr, code |-> code, pos |-> pos,
     anchors |-> DefaultAnchors]

\* the unit with some anchors only
WithAnchors(u, anchors) == [u EXCEPT !.anchors = anchors]

AnchorText(u, anchor, text) == IF anchor \in u.anchors THEN text ELSE <<>>

\* the text of the unit's file
Content(u) ==
    (IF u.name = None THEN <<>> ELSE <<"/","P","R","O","G"," "," ">> \o u.name \o <<"\n">>)
    \o AnchorText(u, "ATTR", <<"/","A","T","T","R","\n">>) \o JoinLines(u.attr)
    \o AnchorText(u, "APPL", <<"/","A","P","P","L","\n">>)
    \o AnchorText(u, "MN", <<"/","M","N","\n">>)
    \o JoinLines([k \in 1..Len(u.code) |-> InstrText(u.code[k])])
    \o AnchorText(u, "POS", <<"/","P","O","S","\n">>) \o JoinLines(u.pos)
    \o AnchorText(u, "END", <<"/","E","N","D","\n">>)

\* a file of the batch; an unreadable file makes open() raise
File(filename, readable, unit) ==
    [filename |-> filename, readable |-> readable, unit |-> unit]

FileNames == <<"a.LS", "b.LS", "c.LS", "d.LS">>

SeqsUpTo(S, n) == UNION {[1..k -> S] : k \in 0..n}

MaxLines == 2
MaxFiles == 3

NameMain  == <<"A","_","1","P","A","0","0","1">>
NameMain2 == <<"A","_","1","P","A","0","0","2">>
NameSub   == <<"S","U","B","1">>
NameSub2  == <<"S","U","B","2">>
NameSub3  == <<"S","U","B","3">>

\* program names around every rule of classify_program
Names ==
    { NameMain, <<"A","_","1","P","A","0","1">>, <<"A","_","1","P","A","0","0","1","2">>, <<"X","A","_","1","P","A","0","0","1">>, <<"A","_","1","P","A","0","0","X">>,
      <<"A","_","1","P","A","0","0","1","_","K","E","R","1","_","3","8","4">>, <<"K","E","R","1","_","3","8","4">>, <<"X","B","U","F","_","1","5","3","6","C","C">>, <<"E","R","R","_","A","F","L","G","_","9">>,
      <<"P","R","I","N","T","E","N">>, <<"H","O","M","I","N","G">>, <<"H","O","M","E","N","1">>, <<"H","O","M","I","N","G","2">>, <<"F","O","L","I","E">>,
      <<"E","R","R","0","1">>, <<"L","O","G","B","O","O","K">>, <<"P","M","C">>, <<"X","E","R","R">>, NameSub }

\* instructions the generated main code is made of
InstrPool ==
    { Lbl(10, <<>>), Lbl(20, <<>>), Lbl(500, <<"E","r","r">>), Jmp(20),
      IfJmp(Operand("DI", 3, <<>>), 600), Call(NameSub), Call(NameSub2), End,
      Assign(Operand("R", 12, <<"S","p","e","e","d","R","e","f">>), Operand("PR", 5, <<"H","o","m","e">>)),
      Comment(<<"C","A","L","L"," ","X"," ","L","B","L","[","7","]">>) }

\* the main code LBL[10], CALL SUB1, JMP LBL[20], LBL[20], END
TwoBlockCode == <<Lbl(10, <<>>), Call(NameSub), Jmp(20), Lbl(20, <<>>), End>>

\* a label defined twice, in the error window
RedefinedCode ==
    <<Lbl(500, <<"E","r","r">>), Call(NameSub), Lbl(500, <<>>),
      SetOn(Operand("DO", 2, <<>>))>>

\* an error procedure with an instruction that holds two markers and with
\* a marker on two instructions
ErrorProcedureCode ==
    <<Lbl(600, <<"E","r","r">>), Call(<<"T","E","K","S","T">>), Raw(<<"W","A","I","T"," ","U","S","E","R"," ",";"," ","A","B","O","R","T">>),
      Raw(<<"A","B","O","R","T">>), Raw(<<"O","p","e","n"," ","h","a","n","d">>), Raw(<<"A","B","O","R","T">>), End>>

\* main code written out for its boundary cases
ScenarioCodes ==
    { TwoBlockCode, RedefinedCode, ErrorProcedureCode,
      <<Lbl(499, <<>>), Lbl(500, <<>>), Lbl(799, <<>>), Lbl(800, <<>>)>>,
      <<Lbl(10, <<>>), Call(NameSub), Call(NameSub2), Call(NameSub3)>>,
      <<Lbl(600, <<"E","r","r">>), Call(<<"T","E","K","S","T">>), SetOn(Operand("RO", 1, <<"I","M","L">>)),
        End, SetOn(Operand("DO", 2, <<>>))>> }

DefaultAttr == <<<<"P","R","O","G","_","S","I","Z","E"," ","="," ","1","2",";">>, <<"C","O","M","M","E","N","T"," ","="," ","\"","x","\"",";">>>>
DefaultPos  == <<<<"P","[","1",":","\"","r","u","s","t","\"","]","{">>, <<"}",";">>>>

\* files with every combination of anchors, with and without header
AnchorUnits ==
    {WithAnchors(Unit(n, DefaultAttr,
                      <<Lbl(10, <<>>), SetOn(Operand("DO", 1, <<>>))>>,
                      DefaultPos), a) :
        n \in {NameMain, None}, a \in SUBSET Anchors}

\* single files: every main code over the pool under one name, and every
\* name over one main code
SingleUnits ==
    {Unit(NameMain, DefaultAttr, c, DefaultPos) :
        c \in SeqsUpTo(InstrPool, MaxLines) \cup ScenarioCodes}
    \cup {Unit(n, <<>>, <<Lbl(10, <<>>), SetOn(Operand("DO", 1, <<"F","o","l","i","e">>))>>,
               <<>>) : n \in Names}
    \cup AnchorUnits

\* the units batches are made of: different names, one name twice, no
\* header twice, one operand number under two aliases
BatchUnits ==
    { Unit(NameMain, <<>>,
           <<Call(NameSub), SetOn(Operand("R", 12, <<"S","p","e","e","d","R","e","f">>))>>, <<>>),
      Unit(NameSub, <<>>,
           <<Lbl(500, <<>>),
             Assign(Operand("R", 12, <<"S","p","e","e","d","A","l","t">>), Operand("DI", 3, <<"G","o">>))>>,
           DefaultPos),
      Unit(NameSub, <<>>,
           <<Call(NameMain),
             Assign(Operand("R", 12, <<>>), Operand("DI", 3, <<"R","u","n">>))>>, <<>>),
      Unit(None, <<>>,
           <<Assign(Operand("RO", 1, <<"a">>), Operand("RI", 2, <<"b">>)),
             SetOn(Operand("DO", 4, <<"c">>))>>, <<>>),
      Unit(None, DefaultAttr, <<Jmp(20), SetOn(Operand("PR", 12, <<"H","o","m","e">>))>>,
           <<>>) }

\* a file of a batch opens, or is one that does not
BatchFiles ==
    {[readable |-> TRUE, unit |-> u] : u \in BatchUnits}
    \cup {[readable |-> FALSE, unit |-> Unit(NameSub2, <<>>, <<>>, <<>>)]}

Batches ==
    {<<File(FileNames[1], TRUE, u)>> : u \in SingleUnits}
    \cup {[k \in 1..Len(b) |-> File(FileNames[k], b[k].readable, b[k].unit)] :
            b \in UNION {[1..n -> BatchFiles] : n \in 2..MaxFiles}}

(***************************************************************************)
(* FANUCAnalyzer.analyze_all and FANUCParser.parse_file                    *)
(***************************************************************************)
Raised == [raised |-> TRUE]

\* analyze_all, loop head: parse_file opens the next file, parses the header
\* and the attributes and enters the loop of _parse_code
ParseFileBegin ==
    /\ pc = "analyze_all"
    /\ fidx <= Len(files)
    /\ files[fidx].readable
    /\ LET content == Content(files[fidx].unit)
       IN  /\ program' = _parse_attributes(
                           _parse_header(FANUCProgram(files[fidx].filename),
                                         content),
                           content)
           /\ lines' = CodeLines(content)
    /\ li' = 1
    /\ pc' = "parse_code"
    /\ UNCHANGED <<files, fidx, batchVars, aggVars, flowVars, treeVars>>

\* analyze_all, loop head: open() raises in parse_file, the except clause
\* reports it and the loop goes on with the next file
ParseFileRaises ==
    /\ pc = "analyze_all"
    /\ fidx <= Len(files)
    /\ ~files[fidx].readable
    /\ returned' = Append(returned, Raised)
    /\ fidx' = fidx + 1
    /\ UNCHANGED <<files, pc, parseVars, programs, aggVars, flowVars, treeVars>>

\* one iteration of the loop of _parse_code
ParseCodeLine ==
    /\ pc = "parse_code"
    /\ li <= Len(lines)
    /\ program' = CodeLine(program, lines[li], li - 1)
    /\ li' = li + 1
    /\ UNCHANGED <<files, fidx, pc, lines, batchVars, aggVars, flowVars, treeVars>>

\* the rest of parse_file after the loop of _parse_code: _parse_positions,
\* classify_program, calculate_statistics, return program
ParseFileEnd ==
    /\ pc = "parse_code"
    /\ li > Len(lines)
    /\ program' = calculate_statistics(
                    classify_program(
                      _parse_positions(program, Content(files[fidx].unit))))
    /\ returned' = Append(returned, program')
    /\ pc' = "parsed"
    /\ UNCHANGED <<files, fidx, lines, li, programs, aggVars, flowVars, treeVars>>

\* analyze_all: self.parser.programs[program.name] = program
StoreProgram ==
    /\ pc = "parsed"
    /\ programs' = MapSet(programs, program.name, program)
    /\ fidx' = fidx + 1
    /\ pc' = "analyze_all"
    /\ UNCHANGED <<files, parseVars, returned, aggVars, flowVars, treeVars>>

\* [called for called, _ in program.calls]
Callees(p) == [k \in 1..Len(p.calls) |-> p.calls[k][1]]

\* the call graph _build_call_graph appends to an empty call_graph: an
\* entry for every program with a call, the callees in call order
CallGraphOf(progs) ==
    [n \in {m \in DOMAIN progs : progs[m].calls # <<>>} |-> Callees(progs[n])]

\* FANUCAnalyzer._build_call_graph
_build_call_graph ==
    /\ pc = "analyze_all"
    /\ fidx > Len(files)
    /\ call_graph' = CallGraphOf(programs)
    /\ pc' = "build_register_map"
    /\ UNCHANGED <<files, fidx, parseVars, batchVars, register_map, io_map,
                   flowVars, treeVars>>

\* self.register_map[num].add(name) for every (num, name) of one program's
\* set that has a name; register_map is a defaultdict(set)
RECURSIVE AddAliases(_, _)
AddAliases(table, pairs) ==
    IF pairs = {} THEN table
    ELSE LET e == CHOOSE x \in pairs : TRUE
             seen == IF e[1] \in DOMAIN table THEN table[e[1]] ELSE {}
         IN  AddAliases(IF e[2] # <<>>
                        THEN MapSet(table, e[1], seen \cup {e[2]})
                        ELSE table,
                        pairs \ {e})

\* the loop over self.parser.programs.values() of a map builder, for the
\* programs named in names and the operand set held in field
RECURSIVE AliasLoop(_, _, _, _)
AliasLoop(table, progs, names, field) ==
    IF names = {} THEN table
    ELSE LET n == CHOOSE x \in names : TRUE
         IN  AliasLoop(AddAliases(table, progs[n][field]), progs,
                       names \ {n}, field)

AliasTable(progs, field) == AliasLoop(EmptyMap, progs, DOMAIN progs, field)

\* FANUCAnalyzer._build_register_map
_build_register_map ==
    /\ pc = "build_register_map"
    /\ register_map' = AliasTable(programs, "registers_used")
    /\ pc' = "build_io_map"
    /\ UNCHANGED <<files, fidx, parseVars, batchVars, call_graph, io_map,
                   flowVars, treeVars>>

\* FANUCAnalyzer._build_io_map
_build_io_map ==
    /\ pc = "build_io_map"
    /\ io_map' = [DI |-> AliasTable(programs, "digital_inputs"),
                  DO |-> AliasTable(programs, "digital_outputs"),
                  RI |-> AliasTable(programs, "register_inputs"),
                  RO |-> AliasTable(programs, "register_outputs")]
    /\ pc' = "analyzed"
    /\ UNCHANGED <<files, fidx, parseVars, batchVars, call_graph, register_map,
                   flowVars, treeVars>>

(***************************************************************************)
(* FANUCFlowAnalyzer                                                       *)
(***************************************************************************)

\* FlowNode.__init__
FlowNode(label_num, label_name) ==
    [ label_num    |-> label_num,
      label_name   |-> label_name,
      instructions |-> <<>>,
      successors   |-> <<>>,
      conditions   |-> <<>> ]

MainCycleLabels == {10, 20}

\* current_node = None: no block is open (label numbers are never negative)
NoNode == 0 - 1

\* FANUCFlowAnalyzer.__init__: the attributes of the analyzer object
FANUCFlowAnalyzer ==
    [ program_file      |-> flow_file,
      flow_nodes        |-> flow_nodes,
      error_nodes       |-> error_nodes,
      main_cycle_labels |-> main_cycle_labels ]

\* FANUCFlowAnalyzer(program_file).parse_program up to its loop: read the
\* file and split the /MN section; without that section it returns at once
FlowBegin ==
    /\ pc = "analyzed"
    /\ \E f \in 1..Len(files) :
          /\ files[f].readable
          /\ flow_file' = f
          /\ lines' = CodeLines(Content(files[f].unit))
          /\ pc' = IF MnSection(Content(files[f].unit)).ok
                   THEN "parse_program" ELSE "flow_done"
    /\ li' = 1
    /\ current_node' = NoNode
    /\ UNCHANGED <<files, fidx, program, batchVars, aggVars, flow_nodes,
                   error_nodes, main_cycle_labels, attached, errors, treeVars>>

\* the jump step of the loop body of parse_program, on the current block
FlowJump(node, line) ==
    LET jump_match == JumpSearch(line)
        if_match   == IfSearch(line)
    IN  IF ~jump_match.ok THEN node
        ELSE [node EXCEPT
                !.successors = Append(@, jump_match.num),
                !.conditions = IF if_match.ok THEN Append(@, if_match.cond)
                               ELSE @]

\* one iteration of the loop of parse_program: a skipped line
FlowSkipLine ==
    /\ pc = "parse_program"
    /\ li <= Len(lines)
    /\ LET line == Strip(lines[li])
       IN  line = <<>> \/ StartsWith(line, <<"!">>)
    /\ li' = li + 1
    /\ UNCHANGED <<files, fidx, pc, program, lines, batchVars, aggVars,
                   flow_file, flow_nodes, current_node, error_nodes,
                   main_cycle_labels, attached, errors, treeVars>>

\* one iteration of the loop of parse_program: a line the label expression
\* matches opens a block
FlowLabelLine ==
    /\ pc = "parse_program"
    /\ li <= Len(lines)
    /\ LET line == Strip(lines[li])
           label_match == LabelSearch(line)
       IN  /\ ~(line = <<>> \/ StartsWith(line, <<"!">>))
           /\ label_match.ok
           /\ flow_nodes' = MapSet(flow_nodes, label_match.num,
                                   FlowNode(label_match.num,
                                            Strip(label_match.name)))
           /\ current_node' = label_match.num
           /\ main_cycle_labels' =
                 IF label_match.num \in MainCycleLabels
                 THEN Append(main_cycle_labels, label_match.num)
                 ELSE main_cycle_labels
           /\ error_nodes' =
                 IF label_match.num \notin MainCycleLabels
                    /\ InErrorWindow(label_match.num)
                 THEN Append(error_nodes, label_match.num)
                 ELSE error_nodes
    /\ li' = li + 1
    /\ UNCHANGED <<files, fidx, pc, program, lines, batchVars, aggVars,
                   flow_file, attached, errors, treeVars>>

\* one iteration of the loop of parse_program: any other line goes to the
\* current block, if there is one, with its jump; END closes the block
FlowInstructionLine ==
    /\ pc = "parse_program"
    /\ li <= Len(lines)
    /\ LET line == Strip(lines[li])
       IN  /\ ~(line = <<>> \/ StartsWith(line, <<"!">>))
           /\ ~LabelSearch(line).ok
           /\ attached' = Append(attached, [line |-> li, node |-> current_node])
           /\ IF current_node # NoNode
              THEN /\ flow_nodes' =
                        [flow_nodes EXCEPT ![current_node] =
                           FlowJump([@ EXCEPT !.instructions = Append(@, line)],
                                    line)]
                   /\ current_node' = IF EndSearch(line) THEN NoNode
                                      ELSE current_node
              ELSE UNCHANGED <<flow_nodes, current_node>>
    /\ li' = li + 1
    /\ UNCHANGED <<files, fidx, pc, program, lines, batchVars, aggVars,
                   flow_file, error_nodes, main_cycle_labels, errors,
                   treeVars>>

\* parse_program returns when the loop is over
FlowEnd ==
    /\ pc = "parse_program"
    /\ li > Len(lines)
    /\ pc' = "flow_done"
    /\ UNCHANGED <<files, fidx, parseVars, batchVars, aggVars, flowVars,
                   treeVars>>

\* sorted(self.error_nodes): the list in ascending order
RECURSIVE SortedList(_)
SortedList(list) ==
    IF list = <<>> THEN <<>>
    ELSE LET least == Min(Range(list))
             k == Min({j \in 1..Len(list) : list[j] = least})
         IN  <<least>> \o SortedList(SubSeq(list, 1, k - 1)
                                     \o SubSeq(list, k + 1, Len(list)))

\* the if/elif chain of identify_error_handling on one instruction
ActionOf(instr) ==
    IF Contains(instr, <<"C","A","L","L"," ","T","E","K","S","T">>) THEN <<"Display error message">>
    ELSE IF Contains(instr, <<"O","p","e","n"," ","h","a","n","d">>) THEN <<"Open gripper">>
    ELSE IF Contains(instr, <<"P","[","1",":","r","u","s","t"," ","p","o","s","i","t","i","e","]">>)
    THEN <<"Move to safe position">>
    ELSE IF Contains(instr, <<"W","A","I","T">>) /\ Contains(instr, <<"U","S","E","R">>)
    THEN <<"Wait for operator confirmation">>
    ELSE IF Contains(instr, <<"A","B","O","R","T">>) THEN <<"Abort program">>
    ELSE <<>>

\* actions: the loop over node.instructions
RECURSIVE Actions(_)
Actions(instructions) ==
    IF instructions = <<>> THEN <<>>
    ELSE ActionOf(instructions[1]) \o Actions(Tail(instructions))

\* FANUCFlowAnalyzer.identify_error_handling
identify_error_handling ==
    /\ pc = "flow_done"
    /\ errors' = LET sorted_nodes == SortedList(error_nodes)
                 IN  [k \in 1..Len(sorted_nodes) |->
                        LET node == flow_nodes[sorted_nodes[k]]
                        IN  <<sorted_nodes[k], node.label_name,
                              Actions(node.instructions)>>]
    /\ pc' = "errors_done"
    /\ UNCHANGED <<files, fidx, parseVars, batchVars, aggVars, flow_file,
                   flow_nodes, current_node, error_nodes, main_cycle_labels,
                   attached, treeVars>>

(***************************************************************************)
(* The call-graph section of the report                                    *)
(***************************************************************************)

\* a line of the section: the root's own line (indent 0), a callee's line
\* ("  " * indent, then the callee), or the empty line that ends a root
RootLine(name)         == [kind |-> "root", indent |-> 0, name |-> name]
CalleeLine(indent, n)  == [kind |-> "callee", indent |-> indent, name |-> n]
BlankLine              == [kind |-> "blank", indent |-> 0, name |-> <<>>]

\* a frame of _write_call_tree: just called (at its first statement), or in
\* its loop with the callees still to do
CallFrame(name, indent) ==
    [prog_name |-> name, indent |-> indent, at |-> "entry", todo |-> <<>>]

\* sorted(main_programs) of _write_call_graph
MainPrograms(progs) ==
    Sorted({n \in DOMAIN progs : progs[n].program_type = "main"})

\* _write_call_graph: the main programs are found and sorted
WriteCallGraph ==
    /\ pc = "report"
    /\ roots' = MainPrograms(programs)
    /\ pc' = "call_graph"
    /\ UNCHANGED <<files, fidx, parseVars, batchVars, aggVars, flowVars,
                   stack, visited, out, expanded>>

\* the loop body with the visited set of the root before kept
TreeRootSharedVisited ==
    /\ pc = "call_graph"
    /\ stack = <<>>
    /\ roots # <<>>
    /\ out' = Append(out, [kind |-> "root", indent |-> 0, name |-> roots[1]])
    /\ expanded' = <<>>
    /\ stack' = <<[prog_name |-> roots[1], indent |-> 1, at |-> "entry",
                   todo |-> <<>>]>>
    /\ pc' = "call_tree"
    /\ UNCHANGED <<files, fidx, parseVars, batchVars, aggVars, flowVars, roots,
                   visited>>

\* _write_call_graph, loop body: the root's line, then _write_call_tree is
\* called on it with a new visited set
TreeRoot ==
    /\ pc = "call_graph"
    /\ stack = <<>>
    /\ roots # <<>>
    /\ out' = Append(out, RootLine(roots[1]))
    /\ visited' = {}
    /\ expanded' = <<>>
    /\ stack' = <<CallFrame(roots[1], 1)>>
    /\ pc' = "call_tree"
    /\ UNCHANGED <<files, fidx, parseVars, batchVars, aggVars, flowVars, roots>>

Top == stack[Len(stack)]
Pop == SubSeq(stack, 1, Len(stack) - 1)

\* a walk that takes no name for visited
InVisitedNever(prog_name, seen) == FALSE

\* prog_name in visited
InVisited(prog_name, seen) == prog_name \in seen

\* _write_call_tree: if prog_name in visited: return
TreeVisited ==
    /\ pc = "call_tree"
    /\ stack # <<>>
    /\ Top.at = "entry"
    /\ InVisited(Top.prog_name, visited)
    /\ stack' = Pop
    /\ UNCHANGED <<files, fidx, pc, parseVars, batchVars, aggVars, flowVars,
                   roots, visited, out, expanded>>

\* _write_call_tree: visited.add(prog_name), and the loop over
\* sorted(set(self.call_graph[prog_name])) is entered if the name has calls
TreeExpand ==
    /\ pc = "call_tree"
    /\ stack # <<>>
    /\ Top.at = "entry"
    /\ ~InVisited(Top.prog_name, visited)
    /\ visited' = visited \cup {Top.prog_name}
    /\ expanded' = Append(expanded, Top.prog_name)
    /\ stack' = [stack EXCEPT ![Len(stack)] =
                   [@ EXCEPT !.at = "loop",
                             !.todo = IF Top.prog_name \in DOMAIN call_graph
                                      THEN Sorted(Range(call_graph[Top.prog_name]))
                                      ELSE <<>>]]
    /\ UNCHANGED <<files, fidx, pc, parseVars, batchVars, aggVars, flowVars,
                   roots, out>>

\* _write_call_tree, loop body: the callee's line is written and
\* _write_call_tree is called on the callee
TreeCallee ==
    /\ pc = "call_tree"
    /\ stack # <<>>
    /\ Top.at = "loop"
    /\ Top.todo # <<>>
    /\ out' = Append(out, CalleeLine(Top.indent, Top.todo[1]))
    /\ stack' = Append([stack EXCEPT ![Len(stack)].todo = Tail(@)],
                       CallFrame(Top.todo[1], Top.indent + 1))
    /\ UNCHANGED <<files, fidx, pc, parseVars, batchVars, aggVars, flowVars,
                   roots, visited, expanded>>

\* _write_call_tree returns at the end of its loop
TreeReturn ==
    /\ pc = "call_tree"
    /\ stack # <<>>
    /\ Top.at = "loop"
    /\ Top.todo = <<>>
    /\ stack' = Pop
    /\ UNCHANGED <<files, fidx, pc, parseVars, batchVars, aggVars, flowVars,
                   roots, visited, out, expanded>>

\* _write_call_graph, loop body after the call: the empty line
TreeRootDone ==
    /\ pc = "call_tree"
    /\ stack = <<>>
    /\ out' = Append(out, BlankLine)
    /\ roots' = Tail(roots)
    /\ pc' = "call_graph"
    /\ UNCHANGED <<files, fidx, parseVars, batchVars, aggVars, flowVars,
                   stack, visited, expanded>>

\* _write_call_graph returns after the last root
WriteCallGraphEnd ==
    /\ pc = "call_graph"
    /\ roots = <<>>
    /\ pc' = "report_done"
    /\ UNCHANGED <<files, fidx, parseVars, batchVars, aggVars, flowVars,
                   treeVars>>

(***************************************************************************)
(* Specifications                                                          *)
(***************************************************************************)

\* a new FANUCParser, FANUCAnalyzer and FANUCFlowAnalyzer, and the batch
InitObjects ==
    /\ fidx = 1
    /\ program = NoProgram
    /\ lines = <<>>
    /\ li = 1
    /\ returned = <<>>
    /\ programs = EmptyMap
    /\ call_graph = EmptyMap
    /\ register_map = EmptyMap
    /\ io_map = [DI |-> EmptyMap, DO |-> EmptyMap, RI |-> EmptyMap,
                 RO |-> EmptyMap]
    /\ flow_file = 0
    /\ flow_nodes = EmptyMap
    /\ current_node = NoNode
    /\ error_nodes = <<>>
    /\ main_cycle_labels = <<>>
    /\ attached = <<>>
    /\ errors = <<>>
    /\ roots = <<>>
    /\ stack = <<>>
    /\ visited = {}
    /\ out = <<>>
    /\ expanded = <<>>

Init ==
    /\ files \in Batches
    /\ pc = "analyze_all"
    /\ InitObjects

Next ==
    \/ ParseFileBegin
    \/ ParseFileRaises
    \/ ParseCodeLine
    \/ ParseFileEnd
    \/ StoreProgram
    \/ _build_call_graph
    \/ _build_register_map
    \/ _build_io_map
    \/ FlowBegin
    \/ FlowSkipLine
    \/ FlowLabelLine
    \/ FlowInstructionLine
    \/ FlowEnd
    \/ identify_error_handling

\* analyze_all over a batch, then parse_program on a file of the batch
Spec == Init /\ [][Next]_vars

\* the programs dict analyze_all leaves for the files fs[k..]: what the
\* loop stores, file by file, a file that does not open storing nothing
RECURSIVE StoreLoop(_, _, _)
StoreLoop(progs, fs, k) ==
    IF k > Len(fs) THEN progs
    ELSE LET p == parse_file(fs[k].filename, Content(fs[k].unit))
         IN  StoreLoop(IF fs[k].readable THEN MapSet(progs, p.name, p)
                       ELSE progs,
                       fs, k + 1)

\* the programs of the call-tree batches, and the names they may call
\* (the last of them is the name of no parsed program)
TreePrograms == <<NameMain, NameMain2, NameSub>>
TreeCallees  == {NameMain, NameMain2, NameSub, NameSub2}
MaxCallees   == 2

\* main code that calls the names of S: in descending order, and the
\* smallest of them once more at the end
CallCode(S) ==
    LET up == Sorted(S)
    IN  [k \in 1..Len(up) |-> Call(up[Len(up) + 1 - k])]
        \o (IF S = {} THEN <<>> ELSE <<Call(up[1])>>)

TreeBatches ==
    {[k \in 1..Len(TreePrograms) |->
        File(FileNames[k], TRUE,
             Unit(TreePrograms[k], <<>>, CallCode(cs[k]), <<>>))] :
     cs \in [1..Len(TreePrograms) ->
               {S \in SUBSET TreeCallees : Cardinality(S) <= MaxCallees}]}

\* the program parse_file returns for such a unit: its name, its CALL lines
\* as code_lines and calls (line k of the split /MN text holds call k), no
\* other section content
CallProgram(f) ==
    LET code == f.unit.code
    IN  calculate_statistics(
          classify_program(
            [FANUCProgram(f.filename) EXCEPT
               !.name = f.unit.name,
               !.code_lines = [k \in 1..Len(code) |-> Strip(InstrText(code[k]))],
               !.calls = [k \in 1..Len(code) |-> <<code[k].name, k>>]]))

\* analyze_all has returned for a batch of TreeBatches and generate_report
\* is at its call-graph section
InitTree ==
    /\ files \in TreeBatches
    /\ fidx = Len(files) + 1
    /\ returned = [k \in 1..Len(files) |-> CallProgram(files[k])]
    /\ program = returned[Len(files)]
    /\ lines = <<>>
    /\ li = 1
    /\ programs = [n \in Range(TreePrograms) |->
                     returned[CHOOSE k \in 1..Len(files) : files[k].unit.name = n]]
    /\ call_graph = CallGraphOf(programs)
    /\ register_map = EmptyMap
    /\ io_map = [DI |-> EmptyMap, DO |-> EmptyMap, RI |-> EmptyMap,
                 RO |-> EmptyMap]
    /\ flow_file = 0
    /\ flow_nodes = EmptyMap
    /\ current_node = NoNode
    /\ error_nodes = <<>>
    /\ main_cycle_labels = <<>>
    /\ attached = <<>>
    /\ errors = <<>>
    /\ roots = <<>>
    /\ stack = <<>>
    /\ visited = {}
    /\ out = <<>>
    /\ expanded = <<>>
    /\ pc = "report"

NextTree ==
    \/ WriteCallGraph
    \/ TreeRoot
    \/ TreeVisited
    \/ TreeExpand
    \/ TreeCallee
    \/ TreeReturn
    \/ TreeRootDone
    \/ WriteCallGraphEnd

\* the call-graph section of generate_report after analyze_all
SpecTree == InitTree /\ [][NextTree]_vars

(***************************************************************************)
(* Properties of the call-graph section                                    *)
(***************************************************************************)

\* every program name of the run: the parsed programs and their callees
ProgramNames ==
    DOMAIN programs \cup UNION {Range(call_graph[n]) : n \in DOMAIN call_graph}

\* the distinct call edges
CallEdges ==
    UNION {{<<n, c>> : c \in Range(call_graph[n])} : n \in DOMAIN call_graph}

\* index of the root line of the traversal that wrote line k
RootOf(k) == Max({j \in 1..k : out[j].kind = "root"})

\* lines written by the traversal in progress
CurrentLines == IF pc = "call_tree" THEN Len(out) + 1 - RootOf(Len(out)) ELSE 0

\* line k is the first line of its traversal that names its program
FirstOccurrence(k) ==
    \A j \in RootOf(k)..(k - 1) : out[j].name # out[k].name

\* the traversal that wrote line k has returned
Finished(k) == \E j \in k..Len(out) : out[j].kind = "blank"

\* first index after the lines rendered below line k
SubtreeEnd(k) ==
    Min({j \in (k + 1)..Len(out) :
            out[j].kind # "callee" \/ out[j].indent <= out[k].indent}
        \cup {Len(out) + 1})

\* the names rendered directly below line k, in order
RECURSIVE ChildrenFrom(_, _, _)
ChildrenFrom(j, stop, indent) ==
    IF j >= stop THEN <<>>
    ELSE (IF out[j].indent = indent THEN <<out[j].name>> ELSE <<>>)
         \o ChildrenFrom(j + 1, stop, indent)

Children(k) == ChildrenFrom(k + 1, SubtreeEnd(k), out[k].indent + 1)

NamedLines == {k \in 1..Len(out) : out[k].kind # "blank"}

\* C1: the walk from any root terminates: within one traversal no more
\* names are expanded than there are program names, the recursion is never
\* deeper than that, no more lines are written than the root's line and
\* one per call edge, and the section is never stuck before its end
C1_CallTreeTerminates ==
    /\ Len(expanded) <= Cardinality(ProgramNames)
    /\ Len(stack) <= Len(expanded) + 1
    /\ CurrentLines <= 1 + Cardinality(CallEdges)
    /\ pc # "report_done" => ENABLED NextTree

\* C1: both roots of a mutual recursion (A_1PA001 calls A_1PA002 and a name
\* that is no parsed program, A_1PA002 calls A_1PA001) are rendered to the end
C1_Witness ==
    /\ pc = "report_done"
    /\ NameMain \in DOMAIN call_graph /\ NameMain2 \in DOMAIN call_graph
    /\ Range(call_graph[NameMain]) = {NameMain2, NameSub2}
    /\ Range(call_graph[NameMain2]) = {NameMain}
    /\ Cardinality({k \in 1..Len(out) : out[k].kind = "blank"}) = 2

\* C2: within one traversal a name is expanded at most once; in a finished
\* traversal the first line of a name shows each of its callees once, in
\* sorted order, and every later line of that name is a leaf
C2_ExpandedOncePerTraversal ==
    /\ \A i, j \in 1..Len(expanded) : expanded[i] = expanded[j] => i = j
    /\ \A k \in NamedLines :
          /\ ~FirstOccurrence(k) => Children(k) = <<>>
          /\ FirstOccurrence(k) /\ Finished(k) =>
                Children(k) = IF out[k].name \in DOMAIN call_graph
                              THEN Sorted(Range(call_graph[out[k].name]))
                              ELSE <<>>

\* C2: SUB1 is reached twice from root A_1PA001 (directly and through
\* A_1PA002): expanded at its first line, a leaf at its second, and expanded
\* again in the traversal of root A_1PA002
C2_Witness ==
    /\ pc = "report_done"
    /\ \E i, j, k \in NamedLines :
          /\ i < j /\ j < k
          /\ out[i].name = NameSub /\ out[j].name = NameSub /\ out[k].name = NameSub
          /\ RootOf(i) = RootOf(j) /\ RootOf(j) < RootOf(k)
          /\ Children(i) = <<NameSub2>> /\ Children(j) = <<>>
          /\ Children(k) = <<NameSub2>>


(***************************************************************************)
(* Properties of the flow graph, the parser and the aggregation            *)
(***************************************************************************)

\* what a unit says, read off its instructions
Positions(code, op) == {k \in 1..Len(code) : code[k].op = op}

LabelIds(code) == {code[k].id : k \in Positions(code, "LBL")}

JumpPositions(code) == Positions(code, "JMP") \cup Positions(code, "IFJMP")

\* the block of the label at position k: up to the next label, or to the
\* END that closes it
BlockEnd(code, k) ==
    LET stops == {j \in k + 1..Len(code) :
                     \/ code[j].op = "LBL"
                     \/ j > k + 1 /\ code[j - 1].op = "END"}
    IN  IF stops = {} THEN Len(code) ELSE Min(stops) - 1

RECURSIVE JumpTargets(_, _, _)
JumpTargets(code, j, last) ==
    IF j > last THEN <<>>
    ELSE (IF j \in JumpPositions(code) THEN <<code[j].id>> ELSE <<>>)
         \o JumpTargets(code, j + 1, last)

\* the name parse_file leaves a unit with
ParsedName(u) == IF u.name = None THEN <<>> ELSE u.name

Readable == {k \in 1..Len(files) : files[k].readable}

\* the file a stored program was parsed from: the last one of its name
StoredFile(n) ==
    Max({k \in Readable : ParsedName(files[k].unit) = n})

AnalyzeAllDone == pc \in {"analyzed", "parse_program", "flow_done"}

\* C3: a jump line met while a block is open appends one successor edge
\* from that block to the jump's target; so for LBL[10], CALL SUB1,
\* JMP LBL[20], LBL[20], END the flow graph has the blocks 10 and 20, block
\* 10 holds the call and has the one successor 20, and block 20, closed by
\* END, has none.
C3_JumpAppendsSuccessor ==
    pc = "flow_done" =>
       LET code == files[flow_file].unit.code
       IN  /\ \A k \in Positions(code, "LBL") :
                 /\ code[k].id \in DOMAIN flow_nodes
                 /\ (\A j \in Positions(code, "LBL") : code[j].id = code[k].id => j = k)
                       => flow_nodes[code[k].id].successors
                             = JumpTargets(code, k + 1, BlockEnd(code, k))
           /\ code = TwoBlockCode =>
                 /\ DOMAIN flow_nodes = {10, 20}
                 /\ flow_nodes[10].instructions
                       = <<Strip(InstrText(Call(NameSub))),
                           Strip(InstrText(Jmp(20)))>>
                 /\ flow_nodes[10].successors = <<20>>
                 /\ flow_nodes[20].successors = <<>>
                 /\ current_node = NoNode

\* C4: the label ids extracted from the main code are exactly the ids of
\* its label definition lines, in the parser's labels and in the keys of
\* the flow graph; an id that is only jumped to is not among them.
C4_LabelsAreDefinitions ==
    /\ pc = "parsed" =>
          {l[1] : l \in Range(program.labels)} = LabelIds(files[fidx].unit.code)
    /\ pc = "flow_done" =>
          DOMAIN flow_nodes = LabelIds(files[flow_file].unit.code)

\* the aliases the stored programs' main code names an operand with
ObservedAliases(kind, id) ==
    {o.alias : o \in {x \in UNION {Operands(ins) :
                             ins \in UNION {Range(files[StoredFile(n)].unit.code) :
                                               n \in DOMAIN programs}} :
                         x.kind = kind /\ x.id = id /\ x.alias # <<>>}}

OperandIds ==
    {o.id : o \in UNION {Operands(ins) :
                    ins \in UNION {Range(files[k].unit.code) : k \in Readable}}}

\* the global table of a kind; the analyzer builds none for PR
GlobalTable(kind) ==
    CASE kind = "R"  -> register_map
      [] kind = "DI" -> io_map.DI
      [] kind = "DO" -> io_map.DO
      [] kind = "RI" -> io_map.RI
      [] kind = "RO" -> io_map.RO
      [] kind = "PR" -> EmptyMap

\* C5: for every operand kind and number, the global table's entry is the
\* union of the non-empty aliases the parsed programs name that operand
\* with: no alias is dropped, none is added, and a number without alias has
\* no entry.
C5_TableIsUnionOfAliases ==
    AnalyzeAllDone =>
       \A kind \in Kinds : \A id \in OperandIds :
          IF ObservedAliases(kind, id) = {}
          THEN id \notin DOMAIN GlobalTable(kind)
          ELSE /\ id \in DOMAIN GlobalTable(kind)
               /\ GlobalTable(kind)[id] = ObservedAliases(kind, id)

\* C6: a file whose parsing raises is left out of the programs and the
\* others are still parsed and aggregated; the model stored for each of
\* the others is the one parse_file gives for that file alone, whatever is
\* missing in any other file of the batch.
C6_UnitsAreIsolated ==
    pc = "analyzed" =>
       /\ \A k \in 1..Len(files) : (returned[k] = Raised) <=> ~files[k].readable
       /\ \A n \in DOMAIN programs :
             \E k \in Readable : programs[n].filename = files[k].filename
       /\ call_graph = CallGraphOf(programs)
       /\ \A k \in Readable :
             LET alone == parse_file(files[k].filename, Content(files[k].unit))
             IN  /\ alone.name \in DOMAIN programs
                 /\ programs[alone.name] = alone

ErrorIds(p) == {e[1] : e \in Range(p.errors)}

\* C7: a defined label is recorded as an error label, by the parser and by
\* the flow analyzer, exactly when 500 <= id < 800: 500 and 799 are, 499
\* and 800 are not.
C7_ErrorWindowHalfOpen ==
    /\ pc = "parsed" =>
          \A id \in LabelIds(files[fidx].unit.code) :
             id \in ErrorIds(program) <=> (500 <= id /\ id < 800)
    /\ pc = "flow_done" =>
          \A id \in LabelIds(files[flow_file].unit.code) :
             id \in Range(error_nodes) <=> (500 <= id /\ id < 800)

C7_Witness ==
    /\ pc = "flow_done"
    /\ LabelIds(files[flow_file].unit.code) = {499, 500, 799, 800}
    /\ ErrorIds(program) = {500, 799}
    /\ error_nodes = <<500, 799>>

\* the tag of the first rule of section 4.3 that a name matches
FirstRule(name) ==
    LET rules == << <<MatchesMainPattern(name), "main">>,
                    <<\E prefix \in SubprogramPrefixes : Contains(name, prefix),
                      "subprogram">>,
                    <<name \in UtilityNames, "utility">>,
                    <<StartsWith(name, <<"E","R","R">>) \/ name \in SystemNames,
                      "system">>,
                    <<TRUE, "other">> >>
    IN  rules[Min({k \in 1..Len(rules) : rules[k][1]})][2]

\* C8: classification gives a program one tag of main, subprogram,
\* utility, system, other: that of the first matching rule in this order;
\* A_1PA001 is main, and A_1PA01, with two digits, is not.
C8_FirstRuleWins ==
    pc = "parsed" =>
       /\ program.program_type \in
             {"main", "subprogram", "utility", "system", "other"}
       /\ program.program_type = FirstRule(program.name)
       /\ program.name = <<"A","_","1","P","A","0","0","1">> => program.program_type = "main"
       /\ program.name = <<"A","_","1","P","A","0","1">> => program.program_type # "main"

C8_Witness ==
    /\ pc = "parsed"
    /\ program.name = <<"A","_","1","P","A","0","0","1","_","K","E","R","1","_","3","8","4">>
    /\ \E prefix \in SubprogramPrefixes : Contains(program.name, prefix)
    /\ program.program_type = "main"

\* the names a unit's main code calls, line by line
CalledNames(code) ==
    LET calls == {k \in 1..Len(code) : code[k].op = "CALL"}
        RECURSIVE From(_)
        From(k) == IF k > Len(code) THEN <<>>
                   ELSE (IF k \in calls THEN <<code[k].name>> ELSE <<>>)
                        \o From(k + 1)
    IN  From(1)

Distinct(s) == \A i, j \in 1..Len(s) : s[i] = s[j] => i = j

\* C9: a main code with N call lines, each to another name, gives the
\* program N callees, each once, and the call graph the set of these N
\* names (no entry when N = 0).
C9_CallsAreAllExtracted ==
    /\ pc = "parsed" =>
          LET names == CalledNames(files[fidx].unit.code)
          IN  Distinct(names) => Callees(program) = names
    /\ AnalyzeAllDone =>
          \A n \in DOMAIN programs :
             LET names == CalledNames(files[StoredFile(n)].unit.code)
             IN  Distinct(names) =>
                    IF names = <<>> THEN n \notin DOMAIN call_graph
                    ELSE /\ n \in DOMAIN call_graph
                         /\ Range(call_graph[n]) = Range(names)
                         /\ Cardinality(Range(call_graph[n])) = Len(names)

C9_Witness ==
    /\ pc = "analyzed"
    /\ Len(CalledNames(files[1].unit.code)) = 3
    /\ Range(call_graph[NameMain]) = {NameSub, NameSub2, NameSub3}

\* C10: two parses of the same content in one batch, whatever is parsed
\* between them, give the same statistics and the same classification.
C10_ParseIsDeterministic ==
    \A i, j \in 1..Len(returned) :
       /\ returned[i] # Raised
       /\ returned[j] # Raised
       /\ files[i].unit = files[j].unit
       => /\ returned[i].statistics = returned[j].statistics
          /\ returned[i].program_type = returned[j].program_type

C10_Witness ==
    /\ Len(returned) = 3
    /\ \A k \in 1..3 : files[k].readable
    /\ files[1].unit = files[3].unit
    /\ files[2].unit # files[1].unit
    /\ returned[1].statistics.call_count = 1
    /\ returned[3].statistics = returned[1].statistics


(***************************************************************************)
(* Properties of labels, sections, blocks and operands                     *)
(***************************************************************************)

\* the file has the anchors the controller writes
WellFormed(u) == u.anchors = DefaultAnchors

DefPositions(code, id) == {k \in Positions(code, "LBL") : code[k].id = id}

Redefined(code) == {id \in LabelIds(code) : Cardinality(DefPositions(code, id)) > 1}

Count(list, id) == Cardinality({k \in 1..Len(list) : list[k][1] = id})

LinesAfter(code, k) == {Strip(InstrText(code[j])) : j \in k + 1..Len(code)}

\* C11: when a label id is defined more than once, the program holds one
\* entry for it in the label list, in the error-label lists (if the id is
\* in the error window) and in the flow-block map, and the flow block
\* holds only instructions and successor edges that follow the last
\* definition.
C11_LabelIdsUnique ==
    /\ pc = "parsed" /\ WellFormed(files[fidx].unit) =>
          \A id \in Redefined(files[fidx].unit.code) :
             /\ Count(program.labels, id) = 1
             /\ Count(program.errors, id) = IF 500 <= id /\ id < 800 THEN 1 ELSE 0
    /\ pc = "flow_done" /\ WellFormed(files[flow_file].unit) =>
          LET code == files[flow_file].unit.code
          IN  \A id \in Redefined(code) :
                 /\ id \in DOMAIN flow_nodes
                 /\ Cardinality({k \in 1..Len(error_nodes) : error_nodes[k] = id})
                       = IF 500 <= id /\ id < 800 THEN 1 ELSE 0
                 /\ Range(flow_nodes[id].instructions)
                       \subseteq LinesAfter(code, Max(DefPositions(code, id)))
                 /\ Range(flow_nodes[id].successors)
                       \subseteq Range(JumpTargets(code,
                                    Max(DefPositions(code, id)) + 1, Len(code)))


\* a section is there when its own opening anchor and one of its closing
\* anchors are
AttrFound(u) == "ATTR" \in u.anchors /\ u.anchors \cap {"APPL", "MN"} # {}
MnFound(u)   == "MN" \in u.anchors /\ u.anchors \cap {"POS", "END"} # {}
PosFound(u)  == "POS" \in u.anchors /\ "END" \in u.anchors

\* what the sections of a unit say
ExpectedAttributes(u) ==
    IF u.attr = DefaultAttr
    THEN [k \in {<<"P","R","O","G","_","S","I","Z","E">>, <<"C","O","M","M","E","N","T">>} |->
             IF k = <<"C","O","M","M","E","N","T">> THEN <<"x">> ELSE <<"1","2">>]
    ELSE EmptyMap

ExpectedPositions(u) ==
    IF u.pos = DefaultPos THEN << <<1, <<"r","u","s","t">>>> >> ELSE <<>>

RECURSIVE StrippedLines(_)
StrippedLines(ls) ==
    IF ls = <<>> THEN <<>>
    ELSE (IF Strip(ls[1]) = <<>> \/ Strip(ls[1])[1] = "!" THEN <<>>
          ELSE <<Strip(ls[1])>>) \o StrippedLines(Tail(ls))

\* the lines between /MN and its closing anchor: without /POS the section
\* runs on to /END
ExpectedCodeLines(u) ==
    StrippedLines([k \in 1..Len(u.code) |-> InstrText(u.code[k])]
                  \o (IF "POS" \in u.anchors THEN <<>> ELSE u.pos))

OpenBlockAt(code, j) ==
    LET defs == {k \in Positions(code, "LBL") :
                    k < j /\ \A e \in k + 1..j - 1 : code[e].op # "END"}
    IN  IF defs = {} THEN NoNode ELSE code[Max(defs)].id

\* the warnings an object holds: those of its attribute for them, if the
\* object has one
Warnings(object) ==
    IF "warnings" \in DOMAIN object THEN object.warnings ELSE <<>>

FlowWarnings ==
    Range(Warnings(FANUCFlowAnalyzer))
    \cup UNION {Range(Warnings(flow_nodes[n])) : n \in DOMAIN flow_nodes}

\* C13: a jump in an open block to an id that no label line defines ends
\* the scan with the id among the block's successors, with no flow block
\* for the id, and with a warning; the scan is never aborted.
C13_DanglingJumpKept ==
    pc = "flow_done" /\ WellFormed(files[flow_file].unit) =>
       LET code == files[flow_file].unit.code
       IN  \A j \in JumpPositions(code) :
              code[j].id \notin LabelIds(code)
              /\ OpenBlockAt(code, j) # NoNode
              => /\ code[j].id \notin DOMAIN flow_nodes
                 /\ OpenBlockAt(code, j) \in DOMAIN flow_nodes
                 /\ code[j].id \in Range(flow_nodes[OpenBlockAt(code, j)].successors)
                 /\ FlowWarnings # {}

\* C14: a label id defined again leaves a warning in the program's model;
\* the last definition wins and the program is parsed to the end.
C14_RedefinitionWarned ==
    /\ pc = "parsed" /\ WellFormed(files[fidx].unit) =>
          (Redefined(files[fidx].unit.code) # {} => Warnings(program) # <<>>)
    /\ pc = "flow_done" /\ WellFormed(files[flow_file].unit) =>
          LET code == files[flow_file].unit.code
          IN  \A id \in Redefined(code) :
                 /\ id \in DOMAIN flow_nodes
                 /\ flow_nodes[id].label_name
                       = Strip(code[Max(DefPositions(code, id))].alias)
                 /\ FlowWarnings # {}

NoGuard == <<"None">>

\* the jumps of the lines j..last: target and guard text
RECURSIVE JumpEdges(_, _, _)
JumpEdges(code, j, last) ==
    IF j > last THEN <<>>
    ELSE (CASE code[j].op = "JMP" ->
                 <<[target |-> code[j].id, guard |-> NoGuard]>>
            [] code[j].op = "IFJMP" ->
                 <<[target |-> code[j].id,
                    guard |-> OperandText(code[j].test) \o <<"=","O","N">>]>>
            [] OTHER -> <<>>)
         \o JumpEdges(code, j + 1, last)

\* the guard a block holds for its e-th successor edge
GuardAt(node, e) ==
    IF e \in DOMAIN node.conditions THEN node.conditions[e] ELSE NoGuard

\* C15: every jump of a block is one of its successor edges, and the
\* guard the block holds for the edge is the guard text of the edge's own
\* line, none for an unconditional jump.
C15_GuardPerEdge ==
    pc = "flow_done" /\ WellFormed(files[flow_file].unit) =>
       LET code == files[flow_file].unit.code
       IN  \A k \in Positions(code, "LBL") :
              DefPositions(code, code[k].id) = {k} =>
                 LET node == flow_nodes[code[k].id]
                     edges == JumpEdges(code, k + 1, BlockEnd(code, k))
                 IN  /\ Len(node.successors) = Len(edges)
                     /\ \A e \in 1..Len(edges) :
                           /\ node.successors[e] = edges[e].target
                           /\ GuardAt(node, e) = edges[e].guard

\* the block line k of the main code was attached to
AttachedTo(k) ==
    LET es == {e \in 1..Len(attached) : attached[e].line = k + 1}
    IN  IF es = {} THEN NoNode ELSE attached[Max(es)].node

\* C16: an instruction line is attached to the block of the last label
\* definition before it if there is one and no END came since; a line
\* before the first label or after an END is attached to no block.
C16_CursorDiscipline ==
    pc = "flow_done" /\ WellFormed(files[flow_file].unit) =>
       LET code == files[flow_file].unit.code
       IN  \A k \in 1..Len(code) :
              code[k].op \notin {"LBL", "COMMENT"} =>
                 AttachedTo(k) = OpenBlockAt(code, k)


\* how often the text lit occurs in s
Occurrences(s, lit) == Cardinality({i \in 1..Len(s) : Lit(s, i, lit)})

Repeat(tag, n) == [k \in 1..n |-> tag]

\* one tag for every occurrence of a marker of the table in an instruction
MarkerTags(instr) ==
    Repeat("Display error message", Occurrences(instr, <<"C","A","L","L"," ","T","E","K","S","T">>))
    \o Repeat("Open gripper", Occurrences(instr, <<"O","p","e","n"," ","h","a","n","d">>))
    \o Repeat("Move to safe position", Occurrences(instr, <<"P","[","1",":","r","u","s","t"," ","p","o","s","i","t","i","e","]">>))
    \o (IF Contains(instr, <<"W","A","I","T">>) /\ Contains(instr, <<"U","S","E","R">>)
        THEN <<"Wait for operator confirmation">> ELSE <<>>)
    \o Repeat("Abort program", Occurrences(instr, <<"A","B","O","R","T">>))

RECURSIVE AllMarkerTags(_)
AllMarkerTags(instructions) ==
    IF instructions = <<>> THEN <<>>
    ELSE MarkerTags(instructions[1]) \o AllMarkerTags(Tail(instructions))

\* C17: every flow block with a label id in the error window is reported
\* once, with one action tag for every marker occurrence in its
\* instructions, in instruction order, repeated tags kept.
C17_ErrorProcedures ==
    pc = "errors_done" =>
       \A id \in {n \in DOMAIN flow_nodes : 500 <= n /\ n < 800} :
          /\ Count(errors, id) = 1
          /\ \A k \in 1..Len(errors) :
                errors[k][1] = id =>
                   errors[k][3] = AllMarkerTags(flow_nodes[id].instructions)


\* the statistics of program p are the counts of p
StatisticsMatch(p) ==
    /\ p.statistics.total_lines = Len(p.code_lines)
    /\ p.statistics.label_count = Len(p.labels)
    /\ p.statistics.call_count = Len(p.calls)
    /\ p.statistics.jump_count = Len(p.jumps)
    /\ p.statistics.position_count = Len(p.positions)
    /\ p.statistics.error_labels = Len(p.errors)
    /\ \A kind \in Kinds :
          /\ kind \in DOMAIN CountKeys
          /\ p.statistics[CountKeys[kind]] = Cardinality(OperandSet(p, kind))

\* C18: the statistics a program gets at the end of parse_file are the
\* counts of its model - lines, labels, calls, jumps, positions, error
\* labels and the distinct operands of each of the six kinds - and stay so
\* through the aggregation.
C18_StatisticsAreCounts ==
    /\ pc = "parsed" => StatisticsMatch(program)
    /\ AnalyzeAllDone =>
          \A n \in DOMAIN programs :
             /\ programs[n] = returned[StoredFile(n)]
             /\ StatisticsMatch(programs[n])

\* the operands of a kind the main code of a unit names
NamedOperands(code, kind) ==
    {<<o.id, o.alias>> :
        o \in {x \in UNION {Operands(code[k]) : k \in 1..Len(code)} :
                  x.kind = kind}}

\* C19: every operand of the main code is recorded under the kind its
\* prefix names and under no other: PR[n] is a position register and not
\* also a register R[n].
C19_OneKindPerOperand ==
    pc = "parsed" /\ WellFormed(files[fidx].unit) =>
       \A kind \in Kinds :
          OperandSet(program, kind) = NamedOperands(files[fidx].unit.code, kind)

====
